---------------------------- MODULE Spec2Model ----------------------------
(***************************************************************************)
(* LaunchPadStreamer (src/main.go): the pad registry, the game manager,    *)
(* the MIDI routing of midiNoteReceived and the three games ColorChanger,  *)
(* PixelPaint and TicTacToe.                                               *)
(*                                                                         *)
(* The Go program keeps its state in globals (pads, gameManager) and in    *)
(* the game objects.  Every Go function that changes state is an operator  *)
(* from a state record s to the state record after the call:              *)
(*   s.games, s.currentIdx, s.currentGame   GameManager                    *)
(*   s.pads, s.stored                       the map pads and its key set   *)
(*   s.ttt                                  the TicTacToeGame object       *)
(*   s.pp                                   the PixelPaintGame object      *)
(*   s.sent, s.maxSent                      MIDI messages given to Send    *)
(*   s.ev                                   calls made through the Game    *)
(*                                          interface, in call order       *)
(* An action of the state machine is one whole call of a handler.          *)
(*                                                                         *)
(* The variable pulse is the state of the earlier pulse-on-press variant   *)
(* (src/unnamed/part_000), which starts a goroutine per press; it is       *)
(* idle in the specifications of main.go.                                  *)
(***************************************************************************)
EXTENDS Integers, Sequences, FiniteSets, TLC

VARIABLES games, currentIdx, currentGame, pads, stored, ttt, pp, running, last, obs,
          pulse

vars ==
    <<games, currentIdx, currentGame, pads, stored, ttt, pp, running, last, obs, pulse>>

(***************************************************************************)
(* Types and constants of main.go                                          *)
(***************************************************************************)
Uint8 == 256

Permanent == 0
Blinking == 1
Pulsing == 2

On == TRUE
Off == FALSE

ColorOff == 0
ColorWhite == 3
ColorRed == 5
ColorOrange == 9
ColorYellow == 13
ColorGreen == 21
ColorCyan == 37
ColorBlue == 45
ColorPurple == 49
ColorMagenta == 53
ColorPink == 57

Nil == "nil"
ColorChanger == "Color Changer"
PixelPaint == "Pixel Paint"
TicTacToe == "Tic Tac Toe"

\* main(): the games in the order main registers them
MainGames == <<ColorChanger, PixelPaint, TicTacToe>>

\* The keys of the map pads: a key is a MIDI data byte (7 bits) or the key of
\* a pad the program itself addresses (11..99)
Keys == 0..127

\* type Pad struct {pos PadPos; color uint8; lightMode uint8}
MkPad(row, col, color, lightMode) ==
    [row |-> row, col |-> col, color |-> color, lightMode |-> lightMode]

\* The zero value of Pad, which a read of an absent map key yields
ZeroPad == MkPad(0, 0, 0, 0)

NewPad(row, col) == MkPad(row, col, 0, Permanent)

getKey(pad) == (pad.row * 10 + pad.col) % Uint8

\* Mutant of PadPosFromKey: the row is taken modulo 8
PadPosFromKey_RowMod8(key) == [row |-> (key \div 10) % 8, col |-> key % 10]

PadPosFromKey(key) == [row |-> key \div 10, col |-> key % 10]

WithColor(pad, color) == [pad EXCEPT !.color = color]

WithMode(pad, mode) == [pad EXCEPT !.lightMode = mode]

(***************************************************************************)
(* sendNote: stores the pad in the registry and sends one MIDI message.    *)
(* The message carries pad.color when on, and no colour (0) when off.      *)
(***************************************************************************)
SentColor(on, pad) == IF on THEN pad.color ELSE 0

sendNote(s, on, pad) ==
    [s EXCEPT !.pads[getKey(pad)] = pad,
              !.stored = @ \cup {getKey(pad)},
              !.sent = @ + 1,
              !.maxSent = IF SentColor(on, pad) > @ THEN SentColor(on, pad) ELSE @]

\* sendNote for each pad of a sequence, in order.  A sendNote reads nothing, so
\* the loop leaves under every key it writes the last pad written there, has
\* sent one message per pad, and the largest colour sent is the largest of them.
SendAll(s, on, ps) ==
    LET n == Len(ps)
        written == {getKey(ps[i]) : i \in 1..n}
        lastOf(k) == CHOOSE i \in 1..n :
                        getKey(ps[i]) = k /\ \A j \in (i + 1)..n : getKey(ps[j]) # k
        top == CHOOSE c \in {SentColor(on, ps[i]) : i \in 1..n} \cup {s.maxSent} :
                  \A i \in 1..n : SentColor(on, ps[i]) <= c
    IN IF n = 0 THEN s
       ELSE [s EXCEPT !.pads = [k \in Keys |-> IF k \in written THEN ps[lastOf(k)] ELSE @[k]],
                      !.stored = @ \cup written,
                      !.sent = @ + n,
                      !.maxSent = IF top > @ THEN top ELSE @]

\* A run of sendNote calls whose pads do not depend on the state writes the same
\* registry entries and sends the same messages from any state.  Such a run is
\* computed once, from Blank, and replayed on the state at the call.
Blank ==
    [pads |-> [k \in Keys |-> ZeroPad], stored |-> {}, sent |-> 0, maxSent |-> 0]

Replay(s, run) ==
    [s EXCEPT !.pads = [k \in Keys |-> IF k \in run.stored THEN run.pads[k] ELSE @[k]],
              !.stored = @ \cup run.stored,
              !.sent = @ + run.sent,
              !.maxSent = IF run.maxSent > @ THEN run.maxSent ELSE @]

\* clearPad: rows 1..9, columns 1..9, row-major
ClearPadSeq == [i \in 1..81 |-> NewPad(((i - 1) \div 9) + 1, ((i - 1) % 9) + 1)]

ClearPadRun == SendAll(Blank, On, ClearPadSeq)

clearPad(s) == Replay(s, ClearPadRun)

\* Mutant of changeColor: the colour 128 is stepped once more before the wrap
changeColor_WrapAbove128(s, pad) ==
    LET curPad == s.pads[getKey(pad)]
        newPad == IF curPad.color <= 128
                  THEN WithColor(curPad, (curPad.color + 4) % Uint8)
                  ELSE WithColor(curPad, 0)
    IN sendNote(s, On, newPad)

changeColor(s, pad) ==
    LET curPad == s.pads[getKey(pad)]
        newPad == IF curPad.color < 128
                  THEN WithColor(curPad, (curPad.color + 4) % Uint8)
                  ELSE WithColor(curPad, 0)
    IN sendNote(s, On, newPad)

(***************************************************************************)
(* ColorChangerGame                                                        *)
(***************************************************************************)
ColorChangerStart(s) == clearPad(s)

ColorChangerStop(s) == s

ColorChangerHandlePadPress(s, pad) == changeColor(s, pad)

(***************************************************************************)
(* PixelPaintGame                                                          *)
(***************************************************************************)
colorPalette ==
    <<ColorRed, ColorOrange, ColorYellow, ColorGreen, ColorCyan,
      ColorBlue, ColorPurple, ColorMagenta, ColorPink, ColorWhite>>

NewPixelPaintGame == [currentColor |-> ColorRed, colorIndex |-> 0]

\* The Go index i (0-based) of the first 8 palette entries
SwatchCount == IF Len(colorPalette) < 8 THEN Len(colorPalette) ELSE 8

PaletteSeq ==
    [j \in 1..SwatchCount |-> MkPad(j, 1, colorPalette[j], Permanent)]

HighlightSeq(colorIndex) ==
    [j \in 1..SwatchCount |->
        MkPad(j, 1, colorPalette[j],
              IF j - 1 = colorIndex THEN Pulsing ELSE Permanent)]

\* Mutant of highlightCurrentColor: only the selected swatch is rewritten
highlightCurrentColor_OnlySelected(s) ==
    SendAll(s, On, SelectSeq(HighlightSeq(s.pp.colorIndex),
                             LAMBDA p : p.lightMode = Pulsing))

highlightCurrentColor(s) == SendAll(s, On, HighlightSeq(s.pp.colorIndex))

PixelPaintStart(s) == highlightCurrentColor(SendAll(s, On, PaletteSeq))

PixelPaintStop(s) == s

PixelPaintHandlePadPress(s, pad) ==
    IF pad.col = 1 /\ pad.row >= 1 /\ pad.row <= 8
    THEN LET s1 == [s EXCEPT !.pp.colorIndex = pad.row - 1]
         IN IF s1.pp.colorIndex < Len(colorPalette)
            THEN highlightCurrentColor(
                     [s1 EXCEPT !.pp.currentColor =
                                    colorPalette[s1.pp.colorIndex + 1]])
            ELSE s1
    ELSE sendNote(s, On, WithColor(pad, s.pp.currentColor))

(***************************************************************************)
(* TicTacToeGame                                                           *)
(***************************************************************************)
EmptyBoard == [r \in 0..2 |-> [c \in 0..2 |-> 0]]

NewTicTacToeGame ==
    [board |-> EmptyBoard, currentPlayer |-> 1, gameOver |-> FALSE,
     winner |-> 0, moveHistory |-> <<>>, maxMoves |-> 2]

\* letterPatterns: 5 rows of 3 pixels for each known rune
letterPatterns ==
    [ch \in {"T", "I", "C", "A", "O", " "} |->
        CASE ch = "T" -> << <<TRUE, TRUE, TRUE>>, <<FALSE, TRUE, FALSE>>,
                            <<FALSE, TRUE, FALSE>>, <<FALSE, TRUE, FALSE>>,
                            <<FALSE, TRUE, FALSE>> >>
          [] ch = "I" -> << <<TRUE, TRUE, TRUE>>, <<FALSE, TRUE, FALSE>>,
                            <<FALSE, TRUE, FALSE>>, <<FALSE, TRUE, FALSE>>,
                            <<TRUE, TRUE, TRUE>> >>
          [] ch = "C" -> << <<FALSE, TRUE, TRUE>>, <<TRUE, FALSE, FALSE>>,
                            <<TRUE, FALSE, FALSE>>, <<TRUE, FALSE, FALSE>>,
                            <<FALSE, TRUE, TRUE>> >>
          [] ch = "A" -> << <<FALSE, TRUE, FALSE>>, <<TRUE, FALSE, TRUE>>,
                            <<TRUE, TRUE, TRUE>>, <<TRUE, FALSE, TRUE>>,
                            <<TRUE, FALSE, TRUE>> >>
          [] ch = "O" -> << <<FALSE, TRUE, FALSE>>, <<TRUE, FALSE, TRUE>>,
                            <<TRUE, FALSE, TRUE>>, <<TRUE, FALSE, TRUE>>,
                            <<FALSE, TRUE, FALSE>> >>
          [] ch = " " -> << <<FALSE, FALSE, FALSE>>, <<FALSE, FALSE, FALSE>>,
                            <<FALSE, FALSE, FALSE>>, <<FALSE, FALSE, FALSE>>,
                            <<FALSE, FALSE, FALSE>> >>]

ScrollText == <<"T", "I", "C", " ", "T", "A", "C", " ", "T", "O", "E">>

\* Width a rune adds to the canvas: its pattern's width + 1, nothing if unknown
GlyphWidth(ch) ==
    IF ch \in DOMAIN letterPatterns THEN Len(letterPatterns[ch][1]) + 1 ELSE 0

\* xPos before the i-th rune of the text (i from 1)
RECURSIVE XPos(_)
XPos(i) == IF i <= 1 THEN 0 ELSE XPos(i - 1) + GlyphWidth(ScrollText[i - 1])

totalWidth == XPos(Len(ScrollText) + 1)

\* canvas[row][x], row in 0..4: the glyphs do not overlap
canvas ==
    [row \in 0..4 |-> [x \in 0..(totalWidth - 1) |->
        \E i \in 1..Len(ScrollText) :
            /\ ScrollText[i] \in DOMAIN letterPatterns
            /\ row < Len(letterPatterns[ScrollText[i]])
            /\ x - XPos(i) \in 0..(Len(letterPatterns[ScrollText[i]][row + 1]) - 1)
            /\ letterPatterns[ScrollText[i]][row + 1][x - XPos(i) + 1]]]

\* One frame of the scroll: 40 pads cleared, then the lit pixels in red
FrameClearSeq ==
    [i \in 1..40 |-> WithColor(NewPad(((i - 1) \div 8) + 2, ((i - 1) % 8) + 1), ColorOff)]

FrameLit(offset, row, col) ==
    LET srcCol == totalWidth - offset - 8 + col
    IN srcCol >= 0 /\ srcCol < totalWidth /\ canvas[row][srcCol]

FrameDrawSeq(offset) ==
    LET all == [i \in 1..40 |-> [row |-> (i - 1) \div 8, col |-> (i - 1) % 8]]
        lit == SelectSeq(all, LAMBDA p : FrameLit(offset, p.row, p.col))
    IN [i \in 1..Len(lit) |->
           WithColor(NewPad(lit[i].row + 2, lit[i].col + 1), ColorRed)]

ScrollFrame(s, offset) ==
    SendAll(SendAll(s, On, FrameClearSeq), On, FrameDrawSeq(offset))

\* The offsets of the scroll loop: -8 .. totalWidth - 1
ScrollOffsets == (-8)..(totalWidth - 1)

\* The whole loop.  Every frame first rewrites the same 40 pads, so the registry
\* after the loop is the registry after its last frame; the messages sent are
\* those of all frames: 40 and one per lit pixel in each.
ScrollRun ==
    LET lit == {t \in ScrollOffsets \X (0..4) \X (0..7) : FrameLit(t[1], t[2], t[3])}
        final == ScrollFrame(Blank, totalWidth - 1)
    IN IF ScrollOffsets = {} THEN Blank
       ELSE [final EXCEPT !.sent = 40 * Cardinality(ScrollOffsets) + Cardinality(lit),
                          !.maxSent = IF lit # {} THEN ColorRed ELSE ColorOff]

showScrollingText(s) == Replay(s, ScrollRun)

\* The grid lines of drawGrid: column 3, column 6, row 3, row 6
GridLineSeq ==
    [i \in 1..8 |-> WithColor(NewPad(i, 3), ColorYellow)]
    \o [i \in 1..8 |-> WithColor(NewPad(i, 6), ColorYellow)]
    \o [i \in 1..8 |-> WithColor(NewPad(3, i), ColorYellow)]
    \o [i \in 1..8 |-> WithColor(NewPad(6, i), ColorYellow)]

GridLineRun == SendAll(Blank, On, GridLineSeq)

drawGrid(s) == Replay(clearPad(s), GridLineRun)

\* Mutant of TicTacToeStart: the winner of the last game is not reset
TicTacToeStart_KeepWinner(s) ==
    drawGrid(showScrollingText(
        [s EXCEPT !.ttt.board = EmptyBoard,
                  !.ttt.currentPlayer = 1,
                  !.ttt.gameOver = FALSE,
                  !.ttt.moveHistory = <<>>]))

TicTacToeStart(s) ==
    drawGrid(showScrollingText(
        [s EXCEPT !.ttt.board = EmptyBoard,
                  !.ttt.currentPlayer = 1,
                  !.ttt.gameOver = FALSE,
                  !.ttt.winner = 0,
                  !.ttt.moveHistory = <<>>]))

TicTacToeStop(s) == s

\* padToGridPosition: (-1) where the pad is in no band
padToGridPosition(pad) ==
    [gridRow |-> IF pad.row >= 7 /\ pad.row <= 8 THEN 0
                 ELSE IF pad.row >= 4 /\ pad.row <= 5 THEN 1
                 ELSE IF pad.row >= 1 /\ pad.row <= 2 THEN 2
                 ELSE -1,
     gridCol |-> IF pad.col >= 1 /\ pad.col <= 2 THEN 0
                 ELSE IF pad.col >= 4 /\ pad.col <= 5 THEN 1
                 ELSE IF pad.col >= 7 /\ pad.col <= 8 THEN 2
                 ELSE -1]

\* Mutant of StartRow: the rows are not inverted (grid row 0 at the bottom)
StartRow_NotInverted(gridRow) == IF gridRow = 0 THEN 1 ELSE IF gridRow = 1 THEN 4 ELSE 7

StartRow(gridRow) == IF gridRow = 0 THEN 7 ELSE IF gridRow = 1 THEN 4 ELSE 1

StartCol(gridCol) == IF gridCol = 0 THEN 1 ELSE IF gridCol = 1 THEN 4 ELSE 7

\* The 2x2 block of a cell, in the order of the two loops
CellSeq(gridRow, gridCol) ==
    [i \in 1..4 |-> NewPad(StartRow(gridRow) + ((i - 1) \div 2),
                           StartCol(gridCol) + ((i - 1) % 2))]

drawMark(s, gridRow, gridCol, player) ==
    LET color == IF player = 1 THEN ColorRed ELSE ColorBlue
        cell == CellSeq(gridRow, gridCol)
    IN SendAll(s, On, [i \in 1..4 |-> WithMode(WithColor(cell[i], color), Pulsing)])

\* redrawGridLines: (row,3), (row,6) for each row, then (3,col), (6,col)
RedrawSeq ==
    [i \in 1..16 |-> WithColor(NewPad(((i - 1) \div 2) + 1,
                                      IF i % 2 = 1 THEN 3 ELSE 6), ColorYellow)]
    \o [i \in 1..16 |-> WithColor(NewPad(IF i % 2 = 1 THEN 3 ELSE 6,
                                         ((i - 1) \div 2) + 1), ColorYellow)]

RedrawRun == SendAll(Blank, On, RedrawSeq)

redrawGridLines(s) == Replay(s, RedrawRun)

\* Mutant of clearMark: the grid lines are redrawn, the cell is left as it is
clearMark_LinesOnly(s, gridRow, gridCol) == redrawGridLines(s)

clearMark(s, gridRow, gridCol) ==
    LET cell == CellSeq(gridRow, gridCol)
    IN redrawGridLines(
           SendAll(s, Off, [i \in 1..4 |-> WithColor(cell[i], ColorOff)]))

\* Mutant of checkWinner: the diagonal from (0,2) to (2,0) is not looked at
checkWinner_NoAntiDiagonal(board) ==
    \/ \E row \in 0..2 :
          board[row][0] # 0 /\ board[row][0] = board[row][1]
                            /\ board[row][1] = board[row][2]
    \/ \E col \in 0..2 :
          board[0][col] # 0 /\ board[0][col] = board[1][col]
                            /\ board[1][col] = board[2][col]
    \/ (board[0][0] # 0 /\ board[0][0] = board[1][1] /\ board[1][1] = board[2][2])

checkWinner(board) ==
    \/ \E row \in 0..2 :
          board[row][0] # 0 /\ board[row][0] = board[row][1]
                            /\ board[row][1] = board[row][2]
    \/ \E col \in 0..2 :
          board[0][col] # 0 /\ board[0][col] = board[1][col]
                            /\ board[1][col] = board[2][col]
    \/ (board[0][0] # 0 /\ board[0][0] = board[1][1] /\ board[1][1] = board[2][2])
    \/ (board[0][2] # 0 /\ board[0][2] = board[1][1] /\ board[1][1] = board[2][0])

isBoardFull(board) == \A row \in 0..2 : \A col \in 0..2 : board[row][col] # 0

\* showWinner: 5 passes over the 8x8 grid, winner colour on passes 0, 2, 4
WinnerPassSeq(i, color) ==
    [j \in 1..64 |-> WithColor(NewPad(((j - 1) \div 8) + 1, ((j - 1) % 8) + 1),
                               IF i % 2 = 0 THEN color ELSE ColorOff)]

\* The five passes rewrite the same 64 pads: the registry keeps the last pass
\* (i = 4), and 5 * 64 messages are sent, the brightest in the winner colour.
WinnerRun(color) ==
    [SendAll(Blank, On, WinnerPassSeq(4, color))
        EXCEPT !.sent = 5 * 64, !.maxSent = color]

WinnerRunRed == WinnerRun(ColorRed)

WinnerRunBlue == WinnerRun(ColorBlue)

showWinner(s) == Replay(s, IF s.ttt.winner = 1 THEN WinnerRunRed ELSE WinnerRunBlue)

(***************************************************************************)
(* The trace of calls: every Start, Stop and HandlePadPress made on a game *)
(* and every clearPad made by the manager appends an entry to s.ev.        *)
(* s.running is the set of games started and not stopped since, s.peak     *)
(* the largest size s.running had during the handler.                      *)
(***************************************************************************)
EvStart(g) == [call |-> "Start", game |-> g, key |-> 0]

EvStop(g) == [call |-> "Stop", game |-> g, key |-> 0]

EvPress(g, key) == [call |-> "HandlePadPress", game |-> g, key |-> key]

EvClear == [call |-> "clearPad", game |-> Nil, key |-> 0]

Started(s, g) ==
    [s EXCEPT !.ev = Append(@, EvStart(g)),
              !.running = @ \cup {g},
              !.peak = IF Cardinality(s.running \cup {g}) > @
                       THEN Cardinality(s.running \cup {g}) ELSE @]

Stopped(s, g) ==
    [s EXCEPT !.ev = Append(@, EvStop(g)), !.running = @ \ {g}]

Logged(s, e) == [s EXCEPT !.ev = Append(@, e)]

\* Mutant of EvictOldest: the newest move is removed instead of the oldest
EvictOldest_Newest(s) ==
    LET n == Len(s.ttt.moveHistory)
        newest == s.ttt.moveHistory[n]
        s1 == [s EXCEPT !.ttt.board[newest.row][newest.col] = 0]
        s2 == clearMark(s1, newest.row, newest.col)
    IN [s2 EXCEPT !.ttt.moveHistory = SubSeq(@, 1, n - 1)]

\* Mutant of EvictOldest: the oldest move leaves the history but not the board
EvictOldest_KeepMark(s) == [s EXCEPT !.ttt.moveHistory = Tail(@)]

\* The oldest move leaves the board, the surface and the history
EvictOldest(s) ==
    LET oldestMove == s.ttt.moveHistory[1]
        s1 == [s EXCEPT !.ttt.board[oldestMove.row][oldestMove.col] = 0]
        s2 == clearMark(s1, oldestMove.row, oldestMove.col)
    IN [s2 EXCEPT !.ttt.moveHistory = Tail(@)]

\* The mark of the current player is placed, drawn and recorded
PlaceMark(s, gridRow, gridCol) ==
    LET s1 == [s EXCEPT !.ttt.board[gridRow][gridCol] = s.ttt.currentPlayer]
        s2 == drawMark(s1, gridRow, gridCol, s1.ttt.currentPlayer)
    IN [s2 EXCEPT !.ttt.moveHistory =
                      Append(@, [row |-> gridRow, col |-> gridCol,
                                 player |-> s2.ttt.currentPlayer])]

\* Mutant of FinishMove: the turn passes to the other player also on a win
FinishMove_SwitchOnWin(s) ==
    LET s1 == [s EXCEPT !.ttt.currentPlayer = IF @ = 1 THEN 2 ELSE 1]
    IN IF checkWinner(s.ttt.board)
       THEN showWinner([s1 EXCEPT !.ttt.gameOver = TRUE,
                                  !.ttt.winner = s1.ttt.currentPlayer])
       ELSE s1

\* Mutant of FinishMove: the turn stays with the player who just moved
FinishMove_NoSwitch(s) ==
    IF checkWinner(s.ttt.board)
    THEN showWinner([s EXCEPT !.ttt.gameOver = TRUE,
                              !.ttt.winner = s.ttt.currentPlayer])
    ELSE s

\* After the placement: the win check, or the other player's turn
FinishMove(s) ==
    IF checkWinner(s.ttt.board)
    THEN showWinner([s EXCEPT !.ttt.gameOver = TRUE,
                              !.ttt.winner = s.ttt.currentPlayer])
    ELSE [s EXCEPT !.ttt.currentPlayer = IF @ = 1 THEN 2 ELSE 1]

\* Mutant of TicTacToeHandlePadPress: the oldest move is evicted one move late
TicTacToeHandlePadPress_LateEvict(s, pad) ==
    IF s.ttt.gameOver
    THEN TicTacToeStart(Started(s, TicTacToe))
    ELSE LET g == padToGridPosition(pad)
         IN IF g.gridRow = -1 \/ g.gridCol = -1
            THEN s
            ELSE IF s.ttt.board[g.gridRow][g.gridCol] # 0
            THEN s
            ELSE FinishMove(PlaceMark(
                     IF Len(s.ttt.moveHistory) >= 8 THEN EvictOldest(s) ELSE s,
                     g.gridRow, g.gridCol))

\* Mutant of TicTacToeHandlePadPress: an occupied cell is not refused
TicTacToeHandlePadPress_Overwrite(s, pad) ==
    IF s.ttt.gameOver
    THEN TicTacToeStart(Started(s, TicTacToe))
    ELSE LET g == padToGridPosition(pad)
         IN IF g.gridRow = -1 \/ g.gridCol = -1
            THEN s
            ELSE FinishMove(PlaceMark(
                     IF Len(s.ttt.moveHistory) >= 7 THEN EvictOldest(s) ELSE s,
                     g.gridRow, g.gridCol))

\* Mutant of TicTacToeHandlePadPress: a press after game over is played as a move
TicTacToeHandlePadPress_NoReset(s, pad) ==
    LET g == padToGridPosition(pad)
    IN IF g.gridRow = -1 \/ g.gridCol = -1
       THEN s
       ELSE IF s.ttt.board[g.gridRow][g.gridCol] # 0
       THEN s
       ELSE FinishMove(PlaceMark(
                IF Len(s.ttt.moveHistory) >= 7 THEN EvictOldest(s) ELSE s,
                g.gridRow, g.gridCol))

\* Mutant of TicTacToeHandlePadPress: the eviction precedes the occupied test
TicTacToeHandlePadPress_EvictFirst(s, pad) ==
    IF s.ttt.gameOver
    THEN TicTacToeStart(Started(s, TicTacToe))
    ELSE LET g == padToGridPosition(pad)
             s1 == IF Len(s.ttt.moveHistory) >= 7 THEN EvictOldest(s) ELSE s
         IN IF g.gridRow = -1 \/ g.gridCol = -1
            THEN s
            ELSE IF s.ttt.board[g.gridRow][g.gridCol] # 0
            THEN s1
            ELSE FinishMove(PlaceMark(s1, g.gridRow, g.gridCol))

TicTacToeHandlePadPress(s, pad) ==
    IF s.ttt.gameOver
    THEN TicTacToeStart(Started(s, TicTacToe))
    ELSE LET g == padToGridPosition(pad)
         IN IF g.gridRow = -1 \/ g.gridCol = -1
            THEN s
            ELSE IF s.ttt.board[g.gridRow][g.gridCol] # 0
            THEN s
            ELSE FinishMove(PlaceMark(
                     IF Len(s.ttt.moveHistory) >= 7 THEN EvictOldest(s) ELSE s,
                     g.gridRow, g.gridCol))

(***************************************************************************)
(* The Game interface: dynamic dispatch on the game                        *)
(***************************************************************************)
GameStart(s, g) ==
    CASE g = ColorChanger -> ColorChangerStart(Started(s, g))
      [] g = PixelPaint -> PixelPaintStart(Started(s, g))
      [] g = TicTacToe -> TicTacToeStart(Started(s, g))

GameStop(s, g) ==
    CASE g = ColorChanger -> ColorChangerStop(Stopped(s, g))
      [] g = PixelPaint -> PixelPaintStop(Stopped(s, g))
      [] g = TicTacToe -> TicTacToeStop(Stopped(s, g))

GameHandlePadPress(s, g, pad) ==
    CASE g = ColorChanger -> ColorChangerHandlePadPress(Logged(s, EvPress(g, getKey(pad))), pad)
      [] g = PixelPaint -> PixelPaintHandlePadPress(Logged(s, EvPress(g, getKey(pad))), pad)
      [] g = TicTacToe -> TicTacToeHandlePadPress(Logged(s, EvPress(g, getKey(pad))), pad)

(***************************************************************************)
(* GameManager                                                             *)
(***************************************************************************)
AddGame(s, game) == [s EXCEPT !.games = Append(@, game)]

StartCurrentGame(s) ==
    IF Len(s.games) > 0
    THEN LET s1 == [s EXCEPT !.currentGame = s.games[s.currentIdx + 1]]
         IN GameStart(s1, s1.currentGame)
    ELSE s

\* Mutant of SwitchToNextGame: the active game is not stopped
SwitchToNextGame_NoStop(s) ==
    IF Len(s.games) = 0
    THEN s
    ELSE LET s2 == [s EXCEPT !.currentIdx = (@ + 1) % Len(s.games)]
             s3 == [s2 EXCEPT !.currentGame = s2.games[s2.currentIdx + 1]]
             s4 == clearPad(Logged(s3, EvClear))
         IN GameStart(s4, s4.currentGame)

\* Mutant of SwitchToNextGame: the new game is started before the old one is
\* stopped and the surface cleared
SwitchToNextGame_StartFirst(s) ==
    IF Len(s.games) = 0
    THEN s
    ELSE LET s2 == [s EXCEPT !.currentIdx = (@ + 1) % Len(s.games)]
             s3 == [s2 EXCEPT !.currentGame = s2.games[s2.currentIdx + 1]]
             s4 == GameStart(s3, s3.currentGame)
             s5 == IF s.currentGame # Nil THEN GameStop(s4, s.currentGame) ELSE s4
         IN clearPad(Logged(s5, EvClear))

SwitchToNextGame(s) ==
    IF Len(s.games) = 0
    THEN s
    ELSE LET s1 == IF s.currentGame # Nil THEN GameStop(s, s.currentGame) ELSE s
             s2 == [s1 EXCEPT !.currentIdx = (@ + 1) % Len(s.games)]
             s3 == [s2 EXCEPT !.currentGame = s2.games[s2.currentIdx + 1]]
             s4 == clearPad(Logged(s3, EvClear))
         IN GameStart(s4, s4.currentGame)

HandlePadPress(s, pad) ==
    IF s.currentGame # Nil THEN GameHandlePadPress(s, s.currentGame, pad) ELSE s

(***************************************************************************)
(* midiNoteReceived: the note-on case and the control-change case          *)
(***************************************************************************)
midiNoteOn(s, key, velocity) ==
    IF velocity > 0
    THEN HandlePadPress(s, NewPad(PadPosFromKey(key).row, PadPosFromKey(key).col))
    ELSE s

midiControlChange(s, controller, value) ==
    IF value > 0
    THEN LET pad == NewPad(PadPosFromKey(controller).row, PadPosFromKey(controller).col)
         IN IF pad.row = 1 /\ pad.col = 9
            THEN SwitchToNextGame(s)
            ELSE IF pad.col = 9
            THEN s
            ELSE HandlePadPress(s, pad)
    ELSE s

(***************************************************************************)
(* The earlier pulse-on-press variant (src/unnamed/part_000).  It has no   *)
(* games and no registry: a press starts a goroutine running pulsePad for  *)
(* the pressed key.  Its state is the record p:                            *)
(*   p.activeKeys   the keys of the map activeKeys                         *)
(*   p.tasks        the pulsePad calls in flight, in the order they were   *)
(*                  started: key, pc ("start" before the first sendNote,   *)
(*                  "polling" in the loop), polls (the 500 ms sleeps done) *)
(*                  and by ("main" for the call in main, "press" for a     *)
(*                  goroutine of midiNoteReceived)                         *)
(*   p.led          per key, the last message sent for it                  *)
(***************************************************************************)
\* The colour of every pulse: Pad{key: key, color: 53}
PulseColor == 53

\* The 5 s timeout in sleeps of 500 ms
PollsPerPulse == 10

\* The key followed in the model: the key main pulses
PulseKeys == {11}

LedOff == [on |-> Off, color |-> 0, lightMode |-> Permanent]

\* The variant is not running
PulseIdle == [activeKeys |-> {}, tasks |-> <<>>, led |-> [k \in PulseKeys |-> LedOff]]

PulseTask(key, by) == [key |-> key, pc |-> "start", polls |-> 0, by |-> by]

\* main after clearPad, which leaves the followed key off, at its call
\* pulsePad(Pad{key: 11, color: 53})
PulseMain == [PulseIdle EXCEPT !.tasks = <<PulseTask(11, "main")>>]

RemoveAt(seq, i) == SubSeq(seq, 1, i - 1) \o SubSeq(seq, i + 1, Len(seq))

\* sendNote of the variant: NoteOn with the pad's colour and mode, or NoteOff
PulseSendNote(p, on, key, color, lightMode) ==
    [p EXCEPT !.led[key] = IF on THEN [on |-> On, color |-> color, lightMode |-> lightMode]
                           ELSE [on |-> Off, color |-> 0, lightMode |-> lightMode]]

\* pulsePad up to the loop: the timer is created, the pad is lit pulsing
pulsePadOn(p, i) ==
    LET q == PulseSendNote(p, On, p.tasks[i].key, PulseColor, Pulsing)
    IN [q EXCEPT !.tasks[i].pc = "polling"]

\* pulsePad, default case of the select: one sleep of 500 ms
pulsePadSleep(task) ==
    IF task.pc = "polling" THEN [task EXCEPT !.polls = @ + 1] ELSE task

\* pulsePad, timeout case of the select: the pad is turned off and the call ends
pulsePadOff(p, i) ==
    LET q == PulseSendNote(p, Off, p.tasks[i].key, PulseColor, Pulsing)
    IN [q EXCEPT !.tasks = RemoveAt(@, i)]

\* Mutant of PulseNoteOn: no goroutine is started for a key that has a pulse
\* in flight
PulseNoteOn_OnePulsePerKey(p, key, velocity) ==
    IF velocity > 0 /\ key \notin p.activeKeys
    THEN IF \E i \in 1..Len(p.tasks) : p.tasks[i].key = key
         THEN [p EXCEPT !.activeKeys = @ \cup {key}]
         ELSE [p EXCEPT !.activeKeys = @ \cup {key},
                        !.tasks = Append(@, PulseTask(key, "press"))]
    ELSE p

\* midiNoteReceived of the variant, note-on case
PulseNoteOn(p, key, velocity) ==
    IF velocity > 0 /\ key \notin p.activeKeys
    THEN [p EXCEPT !.activeKeys = @ \cup {key},
                   !.tasks = Append(@, PulseTask(key, "press"))]
    ELSE p

\* midiNoteReceived of the variant, note-off case
PulseNoteOff(p, key) == [p EXCEPT !.activeKeys = @ \ {key}]

(***************************************************************************)
(* Bounds of the model                                                     *)
(***************************************************************************)
\* Accepted TicTacToe placements in one game of SpecTTT (7 fill the history,
\* the 8th evicts the first move)
MaxCount == 8

\* SpecTTT: the switch pad is pressed while the TicTacToe game has accepted at
\* most this many placements (the earliest win is the 5th placement)
SwitchDepth == 5

\* SpecPulse: the pulsePad calls in flight at once
MaxTasks == 3

\* velocity / value of a message: a release and a press
Velocities == {0, 127}

\* The controller of the "switch game" pad (row 1, col 9)
SwitchKey == 19

(***************************************************************************)
(* The state machine.  Cur is the state record of the variables at the     *)
(* start of a handler; Do commits the record the handler returns.          *)
(*   last  what the last handler call was (op, key, val), the manager and  *)
(*         TicTacToe state it started from, and what it did: the calls it  *)
(*         made (ev), the MIDI messages it sent (sent, maxSent) and the    *)
(*         most games running at once during it (peak)                     *)
(*   obs   history of the run, read by the properties only                 *)
(***************************************************************************)
Cur ==
    [games |-> games, currentIdx |-> currentIdx, currentGame |-> currentGame,
     pads |-> pads, stored |-> stored, ttt |-> ttt, pp |-> pp,
     sent |-> 0, maxSent |-> 0, ev |-> <<>>,
     running |-> running, peak |-> Cardinality(running)]

\* The state at the first line of main: NewGameManager and the game objects
Fresh ==
    [games |-> <<>>, currentIdx |-> 0, currentGame |-> Nil,
     pads |-> [k \in Keys |-> ZeroPad], stored |-> {},
     ttt |-> NewTicTacToeGame, pp |-> NewPixelPaintGame,
     sent |-> 0, maxSent |-> 0, ev |-> <<>>, running |-> {}, peak |-> 0]

\* main up to ListenTo: three AddGame, clearPad, StartCurrentGame
MainState ==
    StartCurrentGame(clearPad(
        AddGame(AddGame(AddGame(Fresh, MainGames[1]), MainGames[2]), MainGames[3])))

\* The press sequence of the end-to-end scenario, as wire keys row*10+col
E2ESeq == <<77, 78, 44, 45, 11>>

\* The pads whose ColorChanger presses obs.cnt counts
CntKeys == {11, 19, 88, 91}

Has(ev, e) == \E i \in 1..Len(ev) : ev[i] = e

HasCall(ev, call, g) == \E i \in 1..Len(ev) : ev[i].call = call /\ ev[i].game = g

PressedKey(ev, g) ==
    ev[CHOOSE i \in 1..Len(ev) : ev[i].call = "HandlePadPress" /\ ev[i].game = g].key

\* obs:
\*   nMoves   placements TicTacToe accepted since its last Start
\*   opening  the cells of the first two of them
\*   matched  how many presses of E2ESeq TicTacToe has received since its last
\*            Start, when it has received exactly that prefix; -1 otherwise
\*   cnt      per pad of CntKeys, the presses ColorChanger received for it since
\*            the last clearPad, counted modulo 33
\*   run, runN, runIdx, runGame   a run of SwitchToNextGame calls with no other
\*            handler call between them, on a list of runN games: the calls so
\*            far (at most runN) and the index and active game before the first
Obs0 ==
    [nMoves |-> 0, opening |-> <<>>, matched |-> -1,
     cnt |-> [k \in CntKeys |-> 0],
     run |-> 0, runN |-> 0, runIdx |-> 0, runGame |-> Nil]

ObsStep(s2, op) ==
    LET ev == s2.ev
        tttStarted == Has(ev, EvStart(TicTacToe))
        tttPressed == HasCall(ev, "HandlePadPress", TicTacToe)
        placed == ~tttStarted /\ s2.ttt.moveHistory # ttt.moveHistory
        newMove == s2.ttt.moveHistory[Len(s2.ttt.moveHistory)]
        cleared == \E i \in 1..Len(ev) : ev[i].call \in {"Start", "clearPad"}
        ccPressed == /\ HasCall(ev, "HandlePadPress", ColorChanger)
                     /\ PressedKey(ev, ColorChanger) \in CntKeys
        switched == Has(ev, EvClear)
        sameRun == obs.run >= 1 /\ obs.run < obs.runN /\ obs.runN = Len(games)
    IN [nMoves |-> IF tttStarted THEN 0 ELSE IF placed THEN obs.nMoves + 1 ELSE obs.nMoves,
        opening |-> IF tttStarted THEN <<>>
                    ELSE IF placed /\ obs.nMoves < 2
                    THEN Append(obs.opening, <<newMove.row, newMove.col>>)
                    ELSE obs.opening,
        matched |-> IF tttStarted THEN 0
                    ELSE IF tttPressed
                    THEN IF /\ obs.matched >= 0
                            /\ obs.matched < Len(E2ESeq)
                            /\ PressedKey(ev, TicTacToe) = E2ESeq[obs.matched + 1]
                         THEN obs.matched + 1 ELSE -1
                    ELSE obs.matched,
        cnt |-> IF cleared THEN [k \in CntKeys |-> 0]
                ELSE IF ccPressed
                THEN [obs.cnt EXCEPT ![PressedKey(ev, ColorChanger)] = (@ + 1) % 33]
                ELSE obs.cnt,
        run |-> IF switched THEN (IF sameRun THEN obs.run + 1 ELSE 1)
                ELSE 0,
        runN |-> IF ~switched THEN 0 ELSE IF sameRun THEN obs.runN ELSE Len(games),
        runIdx |-> IF ~switched THEN 0 ELSE IF sameRun THEN obs.runIdx ELSE currentIdx,
        runGame |-> IF ~switched THEN Nil ELSE IF sameRun THEN obs.runGame ELSE currentGame]

Last(s2, op, key, val) ==
    [op |-> op, key |-> key, val |-> val,
     preIdx |-> currentIdx, preGame |-> currentGame, preN |-> Len(games),
     preOver |-> ttt.gameOver, preLen |-> Len(ttt.moveHistory),
     ev |-> s2.ev, sent |-> s2.sent, maxSent |-> s2.maxSent, peak |-> s2.peak]

\* The handler left the program state as it was and sent nothing
Idle(s2) ==
    /\ s2.sent = 0
    /\ s2.games = games /\ s2.currentIdx = currentIdx /\ s2.currentGame = currentGame
    /\ s2.pads = pads /\ s2.stored = stored /\ s2.ttt = ttt /\ s2.pp = pp
    /\ s2.running = running

Commit(s2) ==
    /\ games' = s2.games
    /\ currentIdx' = s2.currentIdx
    /\ currentGame' = s2.currentGame
    /\ pads' = s2.pads
    /\ stored' = s2.stored
    /\ ttt' = s2.ttt
    /\ pp' = s2.pp
    /\ running' = s2.running
    /\ pulse' = pulse

\* Every call is recorded in last
Do(s2, op, key, val) ==
    /\ Commit(s2)
    /\ last' = Last(s2, op, key, val)
    /\ obs' = ObsStep(s2, op)

\* Only the calls that did something are recorded in last
DoQuiet(s2, op, key, val) ==
    /\ Commit(s2)
    /\ last' = IF Idle(s2) THEN last ELSE Last(s2, op, key, val)
    /\ obs' = ObsStep(s2, op)

StartAt(s0) ==
    /\ games = s0.games
    /\ currentIdx = s0.currentIdx
    /\ currentGame = s0.currentGame
    /\ pads = s0.pads
    /\ stored = s0.stored
    /\ ttt = s0.ttt
    /\ pp = s0.pp
    /\ running = s0.running
    /\ pulse = PulseIdle
    /\ last = [op |-> "main", key |-> 0, val |-> 0,
               preIdx |-> 0, preGame |-> Nil, preN |-> 0,
               preOver |-> FALSE, preLen |-> 0,
               ev |-> s0.ev, sent |-> s0.sent, maxSent |-> s0.maxSent,
               peak |-> s0.peak]
    /\ obs = [Obs0 EXCEPT !.matched = IF s0.currentGame = TicTacToe THEN 0 ELSE -1]

\* The operations
NoteOn(key, velocity) == Do(midiNoteOn(Cur, key, velocity), "NoteOn", key, velocity)

ControlChange(controller, value) ==
    Do(midiControlChange(Cur, controller, value), "ControlChange", controller, value)

CallAddGame ==
    /\ Len(games) < Len(MainGames)
    /\ Do(AddGame(Cur, MainGames[Len(games) + 1]), "AddGame", 0, 0)

CallStartCurrentGame == Do(StartCurrentGame(Cur), "StartCurrentGame", 0, 0)

(***************************************************************************)
(* Spec: the GameManager as an object.  Its methods are called in any      *)
(* order from the state after NewGameManager; MIDI messages arrive at any  *)
(* time.                                                                   *)
(***************************************************************************)
MgrNoteKeys == {19}

MgrCtlKeys == {SwitchKey, 29, 91}

Init == StartAt(Fresh)

MgrNoteOn == \E k \in MgrNoteKeys : \E v \in Velocities : NoteOn(k, v)

MgrControlChange == \E c \in MgrCtlKeys : \E v \in Velocities : ControlChange(c, v)

Next == CallAddGame \/ CallStartCurrentGame \/ MgrNoteOn \/ MgrControlChange

Spec == Init /\ [][Next]_vars

(***************************************************************************)
(* SpecTTT: the running program with TicTacToe reached by two switches.    *)
(* One pad of each of eight cells, a separator pad and a key outside the   *)
(* grid are pressed while TicTacToe is active and has accepted fewer than  *)
(* MaxCount placements; the switch pad is pressed while another game is    *)
(* active or TicTacToe has accepted at most SwitchDepth placements.        *)
(***************************************************************************)
TTTNoteKeys == {11, 14, 17, 41, 44, 47, 71, 74, 33, 105}

InitTTT == StartAt(SwitchToNextGame(SwitchToNextGame(MainState)))

TTTNoteOn ==
    /\ currentGame = TicTacToe
    /\ obs.nMoves < MaxCount
    /\ \E k \in TTTNoteKeys :
          DoQuiet(midiNoteOn(Cur, k, 127), "NoteOn", k, 127)

TTTSwitch ==
    /\ currentGame # TicTacToe \/ obs.nMoves <= SwitchDepth
    /\ DoQuiet(midiControlChange(Cur, SwitchKey, 127), "ControlChange", SwitchKey, 127)

NextTTT == TTTNoteOn \/ TTTSwitch

SpecTTT == InitTTT /\ [][NextTTT]_vars

(***************************************************************************)
(* SpecE2E: TicTacToe as in SpecTTT, with the pads of the end-to-end       *)
(* scenario and two more cells; every press is recorded.                   *)
(***************************************************************************)
E2EKeys == {77, 78, 44, 45, 11, 14, 71}

E2ENoteOn ==
    /\ currentGame = TicTacToe
    /\ \E k \in E2EKeys : NoteOn(k, 127)

E2ESwitch == ControlChange(SwitchKey, 127)

NextE2E == E2ENoteOn \/ E2ESwitch

SpecE2E == InitTTT /\ [][NextE2E]_vars

(***************************************************************************)
(* SpecCC: the running program as main leaves it, ColorChanger active.     *)
(***************************************************************************)
CCNoteKeys == {11, 88, 105}

InitCC == StartAt(MainState)

CCNoteOn == \E k \in CCNoteKeys : \E v \in Velocities : NoteOn(k, v)

NextCC == CCNoteOn

SpecCC == InitCC /\ [][NextCC]_vars

(***************************************************************************)
(* SpecWin: checkWinner as a function of the board.  The board is any of   *)
(* the 3^9 boards over {0 empty, 1, 2}; the call records its result in     *)
(* last.val (1 for true, 0 for false).                                     *)
(***************************************************************************)
Boards == [0..2 -> [0..2 -> 0..2]]

InitWin == \E b \in Boards : StartAt([Fresh EXCEPT !.ttt.board = b])

CallCheckWinner ==
    /\ last.op # "checkWinner"
    /\ last' = [last EXCEPT !.op = "checkWinner",
                            !.val = IF checkWinner(ttt.board) THEN 1 ELSE 0]
    /\ UNCHANGED <<games, currentIdx, currentGame, pads, stored, ttt, pp, running, obs,
                   pulse>>

NextWin == CallCheckWinner

SpecWin == InitWin /\ [][NextWin]_vars

(***************************************************************************)
(* SpecPP: the running program with PixelPaint reached by one switch.      *)
(* Three swatch pads, two pads of the grid and the control pad (9,1) are   *)
(* pressed while PixelPaint is active; the switch pad is pressed at any    *)
(* time, so PixelPaint is left and entered again.                          *)
(***************************************************************************)
PPNoteKeys == {11, 31, 81, 44, 58}

PPCtlKeys == {91}

InitPP == StartAt(SwitchToNextGame(MainState))

PPNoteOn ==
    /\ currentGame = PixelPaint
    /\ \E k \in PPNoteKeys : \E v \in Velocities : NoteOn(k, v)

PPControlChange ==
    /\ currentGame = PixelPaint
    /\ \E c \in PPCtlKeys : ControlChange(c, 127)

PPSwitch == ControlChange(SwitchKey, 127)

NextPP == PPNoteOn \/ PPControlChange \/ PPSwitch

SpecPP == InitPP /\ [][NextPP]_vars

(***************************************************************************)
(* SpecKey: getKey and PadPosFromKey as functions.  A position with row    *)
(* and col in 0..9 is chosen, getKey computes the key of its pad and       *)
(* PadPosFromKey decodes that key; last holds the position, the key as     *)
(* the uint8 getKey returns, the same sum without the 8-bit width (wide)   *)
(* and the decoded position.                                               *)
(***************************************************************************)
Coords == 0..9

InitKey ==
    /\ games = Fresh.games
    /\ currentIdx = Fresh.currentIdx
    /\ currentGame = Fresh.currentGame
    /\ pads = Fresh.pads
    /\ stored = Fresh.stored
    /\ ttt = Fresh.ttt
    /\ pp = Fresh.pp
    /\ running = Fresh.running
    /\ obs = Obs0
    /\ pulse = PulseIdle
    /\ \E row \in Coords, col \in Coords :
          last = [op |-> "PadPos", row |-> row, col |-> col]

CallGetKey ==
    /\ last.op = "PadPos"
    /\ last' = [op |-> "getKey", row |-> last.row, col |-> last.col,
                key |-> getKey(NewPad(last.row, last.col)),
                wide |-> last.row * 10 + last.col]
    /\ UNCHANGED <<games, currentIdx, currentGame, pads, stored, ttt, pp, running, obs,
                   pulse>>

CallPadPosFromKey ==
    /\ last.op = "getKey"
    /\ last' = [op |-> "PadPosFromKey", row |-> last.row, col |-> last.col,
                key |-> last.key, wide |-> last.wide,
                pos |-> PadPosFromKey(last.key)]
    /\ UNCHANGED <<games, currentIdx, currentGame, pads, stored, ttt, pp, running, obs,
                   pulse>>

NextKey == CallGetKey \/ CallPadPosFromKey

SpecKey == InitKey /\ [][NextKey]_vars

(***************************************************************************)
(* SpecIgn: TicTacToe as in SpecTTT with every press recorded in last.     *)
(* One pad of each of seven cells, a separator pad and a pad of row 9 are  *)
(* pressed, so the history fills to 7 entries and presses of occupied      *)
(* cells, of the separator and of the row outside the grid follow.         *)
(***************************************************************************)
IgnNoteKeys == {11, 14, 17, 41, 44, 47, 71, 33, 96}

IgnNoteOn ==
    /\ currentGame = TicTacToe
    /\ \E k \in IgnNoteKeys : NoteOn(k, 127)

NextIgn == IgnNoteOn

SpecIgn == InitTTT /\ [][NextIgn]_vars

(***************************************************************************)
(* SpecPulse: the pulse-on-press variant from the call of pulsePad in      *)
(* main.  Note-on and note-off messages for the followed keys arrive at    *)
(* any time; every pulsePad call in flight takes its steps on its own.     *)
(* Time passes in sleeps of 500 ms, which all polling calls take together; *)
(* a call whose 10 sleeps are done turns its pad off before the next one.  *)
(* last holds the last step: op, key, val (the velocity), by (who started  *)
(* the pulsePad call that took the step) and left, the pulsePad calls for  *)
(* that key still in flight after the step.                                *)
(***************************************************************************)
PulsesFor(p, key) == {i \in 1..Len(p.tasks) : p.tasks[i].key = key}

PulseDo(q, op, key, val, by) ==
    /\ pulse' = q
    /\ last' = [op |-> op, key |-> key, val |-> val, by |-> by,
                left |-> Cardinality(PulsesFor(q, key))]
    /\ UNCHANGED <<games, currentIdx, currentGame, pads, stored, ttt, pp, running, obs>>

InitPulse ==
    /\ games = Fresh.games
    /\ currentIdx = Fresh.currentIdx
    /\ currentGame = Fresh.currentGame
    /\ pads = Fresh.pads
    /\ stored = Fresh.stored
    /\ ttt = Fresh.ttt
    /\ pp = Fresh.pp
    /\ running = Fresh.running
    /\ obs = Obs0
    /\ pulse = PulseMain
    /\ last = [op |-> "main", key |-> 11, val |-> 0, by |-> "main", left |-> 1]

PulsePress ==
    \E k \in PulseKeys : \E v \in Velocities :
        /\ (v > 0 /\ k \notin pulse.activeKeys) => Len(pulse.tasks) < MaxTasks
        /\ PulseDo(PulseNoteOn(pulse, k, v), "NoteOn", k, v, "listener")

PulseRelease ==
    \E k \in PulseKeys : PulseDo(PulseNoteOff(pulse, k), "NoteOff", k, 0, "listener")

PulseTaskOn ==
    \E i \in 1..Len(pulse.tasks) :
        /\ pulse.tasks[i].pc = "start"
        /\ PulseDo(pulsePadOn(pulse, i), "pulsePadOn", pulse.tasks[i].key, 0,
                   pulse.tasks[i].by)

PulseSleep ==
    /\ \E i \in 1..Len(pulse.tasks) : pulse.tasks[i].pc = "polling"
    /\ \A i \in 1..Len(pulse.tasks) : pulse.tasks[i].polls < PollsPerPulse
    /\ PulseDo([pulse EXCEPT !.tasks = [i \in 1..Len(@) |-> pulsePadSleep(@[i])]],
               "Sleep", 0, 0, "timer")

PulseTaskOff ==
    \E i \in 1..Len(pulse.tasks) :
        /\ pulse.tasks[i].pc = "polling"
        /\ pulse.tasks[i].polls = PollsPerPulse
        /\ PulseDo(pulsePadOff(pulse, i), "pulsePadOff", pulse.tasks[i].key, 0,
                   pulse.tasks[i].by)

NextPulse == PulsePress \/ PulseRelease \/ PulseTaskOn \/ PulseSleep \/ PulseTaskOff

SpecPulse == InitPulse /\ [][NextPulse]_vars

(***************************************************************************)
(* SpecCell: the drawing and the input mapping of TicTacToe as functions   *)
(* of the cell.  A cell and a player are chosen; drawMark draws the cell   *)
(* on the empty registry, clearMark clears it, and padToGridPosition is    *)
(* applied to any pad either call has stored.  last holds the cell, the    *)
(* call and, for padToGridPosition, the key of the pad and the result.     *)
(***************************************************************************)
InitCell ==
    /\ games = Fresh.games
    /\ currentIdx = Fresh.currentIdx
    /\ currentGame = Fresh.currentGame
    /\ pads = Fresh.pads
    /\ stored = Fresh.stored
    /\ ttt = Fresh.ttt
    /\ pp = Fresh.pp
    /\ running = Fresh.running
    /\ obs = Obs0
    /\ pulse = PulseIdle
    /\ \E gridRow \in 0..2, gridCol \in 0..2, player \in {1, 2} :
          last = [op |-> "cell", gridRow |-> gridRow, gridCol |-> gridCol,
                  player |-> player]

CallDrawMark ==
    /\ last.op = "cell"
    /\ Commit(drawMark(Cur, last.gridRow, last.gridCol, last.player))
    /\ last' = [last EXCEPT !.op = "drawMark"]
    /\ UNCHANGED obs

CallClearMark ==
    /\ last.op = "drawMark"
    /\ Commit(clearMark(Cur, last.gridRow, last.gridCol))
    /\ last' = [last EXCEPT !.op = "clearMark"]
    /\ UNCHANGED obs

CallPadToGridPosition ==
    /\ last.op \in {"drawMark", "clearMark"}
    /\ \E k \in stored :
          last' = [op |-> "padToGridPosition", gridRow |-> last.gridRow,
                   gridCol |-> last.gridCol, player |-> last.player,
                   after |-> last.op, key |-> k,
                   pos |-> padToGridPosition(pads[k])]
    /\ UNCHANGED <<games, currentIdx, currentGame, pads, stored, ttt, pp, running, obs,
                   pulse>>

NextCell == CallDrawMark \/ CallClearMark \/ CallPadToGridPosition

SpecCell == InitCell /\ [][NextCell]_vars

(***************************************************************************)
(* Properties                                                              *)
(***************************************************************************)
KeyPad(key) == NewPad(PadPosFromKey(key).row, PadPosFromKey(key).col)

KeyCell(key) == padToGridPosition(KeyPad(key))

\* The number of marks on a board
Marks(board) ==
    Cardinality({rc \in (0..2) \X (0..2) : board[rc[1]][rc[2]] # 0})

\* The step is the call that last' records.  A call that did nothing leaves
\* last as it was in SpecTTT, and then last' describes an earlier call.
RecordedStep == last' # last \/ ttt' # ttt \/ pads' # pads

\* The step is a press that TicTacToe accepts as a placement: the game is
\* active and not over, and the pressed pad maps to a cell that is empty
AcceptedPress ==
    /\ RecordedStep
    /\ currentGame = TicTacToe
    /\ ~ttt.gameOver
    /\ last'.op = "NoteOn" /\ last'.val > 0
    /\ KeyCell(last'.key).gridRow # -1
    /\ KeyCell(last'.key).gridCol # -1
    /\ ttt.board[KeyCell(last'.key).gridRow][KeyCell(last'.key).gridCol] = 0

\* What C1 says of an accepted press on a full history
EvictionStep ==
    (AcceptedPress /\ Len(ttt.moveHistory) = 7) =>
        LET h == ttt.moveHistory
            g == KeyCell(last'.key)
        IN /\ ttt'.board[h[1].row][h[1].col] = 0
           /\ \A i \in 2..7 : ttt'.board[h[i].row][h[i].col] = h[i].player
           /\ ttt'.moveHistory =
                 Append(Tail(h), [row |-> g.gridRow, col |-> g.gridCol,
                                  player |-> ttt.currentPlayer])
           /\ Len(ttt'.moveHistory) = 7

\* What C1 says of the state after the 8th accepted move of a game
AfterEightMoves ==
    (obs.nMoves = 8 /\ ~ttt.gameOver) =>
        /\ ttt.board[obs.opening[1][1]][obs.opening[1][2]] = 0
        /\ ttt.board[obs.opening[2][1]][obs.opening[2][2]] # 0

\* C1: eviction is oldest-first.  A press accepted while moveHistory holds 7
\* entries empties the cell of the oldest entry, keeps the marks of the other
\* six and makes moveHistory the old history without its first entry followed
\* by the new move; after 8 accepted moves with no winner the cell of the 1st
\* move is empty and the cell of the 2nd move is marked.
C1_EvictionOldestFirst == [](AfterEightMoves) /\ [][EvictionStep]_vars

\* C1 witness: the 8th move of a game was accepted on a full history
C1_Witness ==
    /\ currentGame = TicTacToe /\ ~ttt.gameOver
    /\ obs.nMoves = 8 /\ last.op = "NoteOn" /\ last.preLen = 7
    /\ Len(ttt.moveHistory) = 7
    /\ ttt.board[obs.opening[1][1]][obs.opening[1][2]] = 0

\* C2: moveHistory holds at most 7 entries and the board at most 7 marks, so
\* at least two cells are empty, in every reachable state.
C2_AtMostSevenMarks ==
    /\ Len(ttt.moveHistory) <= 7
    /\ Marks(ttt.board) <= 7
    /\ ~isBoardFull(ttt.board)

\* C2 witness: 7 marks on the board after an eviction
C2_Witness ==
    /\ Marks(ttt.board) = 7 /\ Len(ttt.moveHistory) = 7 /\ obs.nMoves = 8

\* C3 as stated: the five presses of E2ESeq on a fresh game end it, winner 1.
C3_Original == (obs.matched = 5) => (ttt.gameOver /\ ttt.winner = 1)

\* C3 as amended: after the five presses of E2ESeq on a fresh game the game is
\* not over and has no winner: the 2nd and the 4th press hit the occupied cells
\* (0,2) and (1,1) and are ignored, so player 1 holds (0,2), player 2 holds
\* (1,1) after the 3rd press, player 1 holds (2,0) after the 5th, and it is
\* player 2's turn.
C3_E2ENoWin ==
    (obs.matched = 5) =>
        /\ ~ttt.gameOver /\ ttt.winner = 0
        /\ ttt.currentPlayer = 2
        /\ ttt.moveHistory = << [row |-> 0, col |-> 2, player |-> 1],
                                [row |-> 1, col |-> 1, player |-> 2],
                                [row |-> 2, col |-> 0, player |-> 1] >>
        /\ ttt.board = [r \in 0..2 |-> [c \in 0..2 |->
                           IF <<r, c>> \in {<<0, 2>>, <<2, 0>>} THEN 1
                           ELSE IF <<r, c>> = <<1, 1>> THEN 2 ELSE 0]]

\* C3 witness: the five presses were made on a fresh game
C3_Witness == obs.matched = 5 /\ currentGame = TicTacToe /\ last.key = 11

\* C5: a press forwarded to TicTacToe while the game is over resets the game
\* through Start and places no mark.
C5_PressAfterGameOverResets ==
    (last.op = "NoteOn" /\ last.val > 0 /\ last.preGame = TicTacToe /\ last.preOver) =>
        /\ last.ev = <<EvPress(TicTacToe, last.key), EvStart(TicTacToe)>>
        /\ ttt.board = EmptyBoard
        /\ ttt.moveHistory = <<>>
        /\ ttt.currentPlayer = 1
        /\ ~ttt.gameOver
        /\ ttt.winner = 0

\* C5 witness: the game was over and a separator pad was pressed
C5_Witness ==
    /\ last.op = "NoteOn" /\ last.preGame = TicTacToe /\ last.preOver
    /\ last.key = 33 /\ ttt.board = EmptyBoard

\* The eight lines of the board: three rows, three columns, two diagonals
Lines ==
    {{<<r, c>> : c \in 0..2} : r \in 0..2}
        \cup {{<<r, c>> : r \in 0..2} : c \in 0..2}
        \cup {{<<0, 0>>, <<1, 1>>, <<2, 2>>}, {<<0, 2>>, <<1, 1>>, <<2, 0>>}}

HasLine(board) ==
    \E l \in Lines : \E p \in {1, 2} : \A rc \in l : board[rc[1]][rc[2]] = p

BoardOf(rows) == [r \in 0..2 |-> [c \in 0..2 |-> rows[r + 1][c + 1]]]

\* C4: for every board, checkWinner returns true exactly when a row, a column
\* or a diagonal holds three equal non-empty marks; it is true for the two
\* boards the specification gives as examples.
C4_CheckWinnerIffLine ==
    /\ (last.op = "checkWinner") => ((last.val = 1) <=> HasLine(ttt.board))
    /\ checkWinner(BoardOf(<< <<1, 1, 1>>, <<0, 0, 0>>, <<0, 0, 0>> >>))
    /\ checkWinner(BoardOf(<< <<1, 2, 0>>, <<0, 1, 2>>, <<0, 0, 1>> >>))

\* C4 witness: checkWinner returned true for a board whose only line is the
\* diagonal from (0,2) to (2,0)
C4_Witness ==
    /\ last.op = "checkWinner" /\ last.val = 1
    /\ ttt.board = BoardOf(<< <<1, 1, 2>>, <<0, 2, 1>>, <<2, 0, 0>> >>)

\* The last call was a press of the switch pad that reached SwitchToNextGame
\* with a game active
SwitchedFromActive ==
    /\ last.op = "ControlChange" /\ last.key = SwitchKey /\ last.val > 0
    /\ last.preN >= 1 /\ last.preGame # Nil

CallsOf(ev, call) == {i \in 1..Len(ev) : ev[i].call = call}

\* C6: with N >= 1 games and a game active, N calls of SwitchToNextGame in a
\* row bring the manager back to the index and the active game it had before
\* the first; each call makes exactly one Stop, on the game active before it,
\* and exactly one Start, on the game at index (old index + 1) mod N.
C6_SwitchCycle ==
    /\ (obs.run >= 1 /\ obs.run = obs.runN /\ obs.runGame # Nil) =>
          (currentIdx = obs.runIdx /\ currentGame = obs.runGame)
    /\ SwitchedFromActive =>
          /\ Cardinality(CallsOf(last.ev, "Stop")) = 1
          /\ Has(last.ev, EvStop(last.preGame))
          /\ Cardinality(CallsOf(last.ev, "Start")) = 1
          /\ Has(last.ev, EvStart(games[((last.preIdx + 1) % last.preN) + 1]))
          /\ currentIdx = (last.preIdx + 1) % last.preN
          /\ currentGame = games[currentIdx + 1]

\* C6 witness: three switches in a row on three games, from an active game
C6_Witness ==
    /\ obs.run = 3 /\ obs.runN = 3 /\ obs.runGame = PixelPaint
    /\ currentGame = PixelPaint /\ currentIdx = 1

\* C7: a SwitchToNextGame with a game active stops that game, then clears the
\* surface, then starts the new game; at most one game is running, in every
\* state and at every point of every handler.
C7_StopClearStart ==
    /\ SwitchedFromActive =>
          last.ev = <<EvStop(last.preGame), EvClear, EvStart(currentGame)>>
    /\ Cardinality(running) <= 1
    /\ last.peak <= 1

\* C7 witness: a switch from ColorChanger to PixelPaint
C7_Witness ==
    /\ SwitchedFromActive /\ last.preGame = ColorChanger
    /\ running = {PixelPaint} /\ last.peak = 1 /\ Len(last.ev) = 3

\* C8 as stated: StartCurrentGame starts the game at the current index when a
\* game is registered and none is active, and otherwise calls no Start, sends
\* nothing and leaves the manager as it was.
C8_StartCurrentOnlyWhenIdle ==
    (last.op = "StartCurrentGame") =>
        IF last.preN >= 1 /\ last.preGame = Nil
        THEN /\ last.ev = <<EvStart(games[last.preIdx + 1])>>
             /\ currentGame = games[last.preIdx + 1]
             /\ currentIdx = last.preIdx
        ELSE /\ last.ev = <<>>
             /\ last.sent = 0
             /\ currentGame = last.preGame
             /\ currentIdx = last.preIdx

\* C9 as stated: of a note-on or control-change message, velocity or value 0
\* does nothing; a press at (row 1, col 9) switches and is not forwarded; a
\* press at another pad of column 9 is dropped; any other press is forwarded
\* to the active game.
C9_Routing ==
    (last.op \in {"NoteOn", "ControlChange"}) =>
        LET pos == PadPosFromKey(last.key)
            forwarded == \E g \in {ColorChanger, PixelPaint, TicTacToe} :
                            HasCall(last.ev, "HandlePadPress", g)
        IN IF last.val = 0
           THEN last.ev = <<>> /\ last.sent = 0
           ELSE IF pos.row = 1 /\ pos.col = 9
           THEN /\ ~forwarded
                /\ (last.preN >= 1) => Has(last.ev, EvClear)
           ELSE IF pos.col = 9
           THEN last.ev = <<>> /\ last.sent = 0
           ELSE (last.preGame # Nil) =>
                   (last.ev # <<>> /\ last.ev[1] = EvPress(last.preGame, last.key))

\* The pads clearPad stores: rows 1..9, columns 1..9
SurfaceKeys == {getKey(NewPad(r, c)) : r \in 1..9, c \in 1..9}

\* The pads of SurfaceKeys pressed in SpecCC
CountedKeys == CCNoteKeys \cap CntKeys

ColorOfCount ==
    /\ \A k \in CountedKeys : pads[k].color = 4 * obs.cnt[k]
    /\ \A k \in SurfaceKeys \ CountedKeys : pads[k].color = 0

OthersUnchanged ==
    \A k \in SurfaceKeys : (k # last'.key) => (pads'[k] = pads[k])

\* C10: in ColorChanger, the stored colour of a pad that Start left at 0 is 4
\* times the number of its presses modulo 33, so it steps by 4 per press and
\* is 0 again after 33 presses and not before; a press leaves the stored pad
\* of every other pad of the surface as it was.
C10_ColorCycle == [](ColorOfCount) /\ [][OthersUnchanged]_vars

\* C10 witness: the 33rd press of pad (1,1) has brought it back to 0 while
\* pad (8,8) keeps the colour of its 5 presses
C10_Witness ==
    /\ last.op = "NoteOn" /\ last.key = 11 /\ last.val > 0
    /\ obs.cnt[11] = 0 /\ pads[11].color = 0
    /\ obs.cnt[88] = 5 /\ pads[88].color = 20

\* C11 as stated: every pad stored in the registry and every message sent
\* carries a colour in 0..127.
C11_ColorsInRange ==
    /\ \A k \in stored : pads[k].color \in 0..127
    /\ last.maxSent <= 127

SwatchKey(r) == getKey(NewPad(r, 1))

SwatchKeys == {SwatchKey(r) : r \in 1..8}

\* The last call was a press that PixelPaint handled
PixelPaintPress ==
    /\ last.op \in {"NoteOn", "ControlChange"} /\ last.val > 0
    /\ last.preGame = PixelPaint
    /\ last.ev = <<EvPress(PixelPaint, last.key)>>

\* C12: while PixelPaint is active, the swatch pad of row colorIndex + 1 is
\* stored Pulsing and the other seven swatch pads are stored Permanent, each
\* with its palette colour; a press of swatch row r selects index r - 1; a press
\* of any other pad stores the selected palette colour on that pad.
C12_OneSwatchPulsing ==
    (currentGame = PixelPaint) =>
        /\ pp.colorIndex \in 0..7
        /\ pp.currentColor = colorPalette[pp.colorIndex + 1]
        /\ \A r \in 1..8 :
              /\ pads[SwatchKey(r)].lightMode =
                    IF r = pp.colorIndex + 1 THEN Pulsing ELSE Permanent
              /\ pads[SwatchKey(r)].color = colorPalette[r]
        /\ Cardinality({k \in SwatchKeys : pads[k].lightMode = Pulsing}) = 1
        /\ (PixelPaintPress /\ last.key \in SwatchKeys) =>
              pp.colorIndex = PadPosFromKey(last.key).row - 1
        /\ (PixelPaintPress /\ last.key \notin SwatchKeys) =>
              /\ pads[last.key].color = colorPalette[pp.colorIndex + 1]
              /\ last.sent = 1

\* C12 witness: pad (5,8) was painted red, then swatch 8 was selected and pad
\* (4,4) painted in its colour
C12_Witness ==
    /\ currentGame = PixelPaint /\ PixelPaintPress /\ last.key = 44
    /\ pp.colorIndex = 7 /\ pads[44].color = ColorMagenta
    /\ pads[SwatchKey(8)].lightMode = Pulsing
    /\ pads[58].color = ColorRed

\* C13: for every position with row and col in 0..9 the key row*10+col fits
\* the 8-bit key type, PadPosFromKey decodes it to the same row and col, and
\* distinct positions have distinct keys.
C13_KeyRoundTrip ==
    /\ (last.op \in {"getKey", "PadPosFromKey"}) =>
          (last.key = last.wide /\ last.key < Uint8)
    /\ (last.op = "PadPosFromKey") =>
          (last.pos.row = last.row /\ last.pos.col = last.col)
    /\ \A p \in Coords \X Coords : \A q \in Coords \X Coords :
          (getKey(NewPad(p[1], p[2])) = getKey(NewPad(q[1], q[2]))) => (p = q)

\* C13 witness: the largest position, (9,9), was encoded as 99 and decoded
C13_Witness ==
    /\ last.op = "PadPosFromKey" /\ last.row = 9 /\ last.col = 9
    /\ last.key = 99 /\ last.pos = [row |-> 9, col |-> 9]

\* The position decoded from a key has its row or its col outside 1..9
OutOfRange(key) ==
    PadPosFromKey(key).row \notin 1..9 \/ PadPosFromKey(key).col \notin 1..9

OutOfRangePressIsNoOp ==
    (/\ last'.op \in {"NoteOn", "ControlChange"} /\ last'.val > 0
     /\ OutOfRange(last'.key)) =>
        /\ pads' = pads /\ stored' = stored
        /\ ttt' = ttt /\ pp' = pp
        /\ last'.sent = 0

\* C14 as stated: a press whose decoded position is out of range changes no
\* registry entry, sends no message and changes no game state.
C14_OutOfRangeNoOp == [][OutOfRangePressIsNoOp]_vars

OwnsLine(board, p) == \E l \in Lines : \A rc \in l : board[rc[1]][rc[2]] = p

\* The board an accepted press leaves: the oldest move's cell emptied when the
\* history holds 7 entries, then the mark of the current player in the cell
BoardAfterPress ==
    LET h == ttt.moveHistory
        g == KeyCell(last'.key)
        kept == IF Len(h) >= 7 THEN [ttt.board EXCEPT ![h[1].row][h[1].col] = 0]
                ELSE ttt.board
    IN [kept EXCEPT ![g.gridRow][g.gridCol] = ttt.currentPlayer]

WinStep ==
    AcceptedPress =>
        /\ ttt'.board = BoardAfterPress
        /\ IF HasLine(BoardAfterPress)
           THEN /\ ttt'.gameOver
                /\ ttt'.winner = ttt.currentPlayer
                /\ ttt'.currentPlayer = ttt.currentPlayer
                /\ OwnsLine(ttt'.board, ttt'.winner)
           ELSE ~ttt'.gameOver /\ ttt'.winner = 0

GameOverByLine ==
    ttt.gameOver =>
        /\ ttt.winner \in {1, 2}
        /\ ttt.winner = ttt.currentPlayer
        /\ ttt.winner = ttt.moveHistory[Len(ttt.moveHistory)].player
        /\ OwnsLine(ttt.board, ttt.winner)

\* C15: an accepted placement whose board, after the eviction if any and with
\* the new mark, holds a 3-in-a-row sets gameOver, records the placing player
\* as winner and leaves the current player as it is; whenever the game is over
\* the winner is the current player, made the last move and owns a complete
\* row, column or diagonal of the board.
C15_WinEndsGame == [](GameOverByLine) /\ [][WinStep]_vars

\* C15 witness: player 2 won with the 8th move, placed after an eviction
C15_Witness ==
    /\ currentGame = TicTacToe /\ ttt.gameOver /\ ttt.winner = 2
    /\ ttt.currentPlayer = 2 /\ obs.nMoves = 8 /\ last.preLen = 7
    /\ OwnsLine(ttt.board, 2)

\* The step is a press TicTacToe receives while playing, of a pad that maps
\* to no cell or to an occupied cell (every press is recorded in SpecIgn)
IgnoredPress ==
    /\ currentGame = TicTacToe /\ ~ttt.gameOver
    /\ last'.op = "NoteOn" /\ last'.val > 0
    /\ LET g == KeyCell(last'.key)
       IN \/ g.gridRow = -1
          \/ g.gridCol = -1
          \/ ttt.board[g.gridRow][g.gridCol] # 0

IgnoredStep ==
    IgnoredPress =>
        /\ ttt' = ttt
        /\ pads' = pads /\ stored' = stored
        /\ last'.sent = 0
        /\ last'.ev = <<EvPress(TicTacToe, last'.key)>>

\* C16: while playing, a press that maps to no cell or to an occupied cell
\* leaves board, moveHistory, current player, gameOver, winner and the pad
\* registry unchanged and sends nothing, also when moveHistory holds 7 entries.
C16_IgnoredPressNoEffect ==
    /\ [][IgnoredStep]_vars
    /\ []((last.op = "NoteOn" /\ last.preGame = TicTacToe /\ ~last.preOver
           /\ last.sent = 0) => Len(ttt.moveHistory) = last.preLen)

\* C16 witness: an occupied cell was pressed with 7 entries in moveHistory
C16_Witness ==
    /\ last.op = "NoteOn" /\ last.key = 11 /\ last.sent = 0
    /\ last.preLen = 7 /\ ~last.preOver
    /\ Len(ttt.moveHistory) = 7 /\ ttt.board[2][0] # 0

Opponent(p) == IF p = 1 THEN 2 ELSE 1

\* The player of the n-th accepted move since Start: player 1 moves first
MoverOf(n) == IF n % 2 = 1 THEN 1 ELSE 2

TurnsAlternate ==
    LET h == ttt.moveHistory
        n == Len(h)
    IN /\ \A i \in 1..(n - 1) : h[i].player # h[i + 1].player
       /\ \A i \in 1..n : h[i].player = MoverOf(obs.nMoves - n + i)
       /\ (obs.nMoves >= 1 /\ obs.nMoves = n) => h[1].player = 1
       /\ ~ttt.gameOver =>
             ttt.currentPlayer = IF n = 0 THEN 1 ELSE Opponent(h[n].player)

TurnKept ==
    (ttt'.moveHistory = ttt.moveHistory) => (ttt'.currentPlayer = ttt.currentPlayer)

\* C17: the players of consecutive moveHistory entries differ, the n-th move
\* since Start is by player 1 for odd n and player 2 for even n, while playing
\* the current player is the opponent of the last recorded move's player
\* (player 1 on an empty history), and a step that records no move leaves the
\* current player as it is.
C17_TurnsAlternate == [](TurnsAlternate) /\ [][TurnKept]_vars

\* C17 witness: eight moves were made, the first was evicted, player 2 made
\* the last one and it is player 1's turn
C17_Witness ==
    /\ currentGame = TicTacToe /\ ~ttt.gameOver
    /\ obs.nMoves = 8 /\ Len(ttt.moveHistory) = 7
    /\ ttt.moveHistory[1].player = 2 /\ ttt.moveHistory[7].player = 2
    /\ ttt.currentPlayer = 1

\* C18: a cell holds player p on the board exactly when moveHistory has an
\* entry for that cell with player p, and no cell has two entries.
C18_BoardMatchesHistory ==
    LET h == ttt.moveHistory
    IN /\ \A r \in 0..2 : \A c \in 0..2 : \A p \in {1, 2} :
             (ttt.board[r][c] = p) <=>
                (\E i \in 1..Len(h) : h[i] = [row |-> r, col |-> c, player |-> p])
       /\ \A i \in 1..Len(h) : \A j \in 1..Len(h) :
             (h[i].row = h[j].row /\ h[i].col = h[j].col) => (i = j)
       /\ \A r \in 0..2 : \A c \in 0..2 : ttt.board[r][c] \in {0, 1, 2}

\* C18 witness: after an eviction the cell of the first move is empty and has
\* no entry, and the other seven moves are on the board
C18_Witness ==
    /\ obs.nMoves = 8 /\ last.preLen = 7 /\ Len(ttt.moveHistory) = 7
    /\ ttt.board[obs.opening[1][1]][obs.opening[1][2]] = 0
    /\ \A i \in 1..7 : <<ttt.moveHistory[i].row, ttt.moveHistory[i].col>> # obs.opening[1]
    /\ \A i \in 1..7 :
          ttt.board[ttt.moveHistory[i].row][ttt.moveHistory[i].col] =
              ttt.moveHistory[i].player

\* A press of a key that is not in activeKeys starts a pulsePad call for it,
\* whatever calls are in flight for that key
PressStartsPulse ==
    (last'.op = "NoteOn" /\ last'.val > 0 /\ last'.key \notin pulse.activeKeys) =>
        /\ pulse'.tasks = Append(pulse.tasks, PulseTask(last'.key, "press"))
        /\ last'.left = Cardinality(PulsesFor(pulse, last'.key)) + 1

\* A release takes the key out of activeKeys while its pulsePad calls go on
ReleaseKeepsPulse ==
    (last'.op = "NoteOff") =>
        /\ last'.key \notin pulse'.activeKeys
        /\ pulse'.tasks = pulse.tasks

\* The turn-off of one call leaves the pad off while the other calls for the
\* same pad are still in flight
OffUnderPulse ==
    (last.op = "pulsePadOff") =>
        /\ ~pulse.led[last.key].on
        /\ last.left = Cardinality(PulsesFor(pulse, last.key))

\* C19: in the pulse-on-press variant nothing keeps the pulses of one pad
\* apart.  A release removes the key from activeKeys and ends no pulsePad
\* call; a press of a key not in activeKeys starts a new call also while
\* earlier calls for the key are in flight; the turn-off a call sends leaves
\* the pad off whatever calls for it remain.  Two calls on one pad and a
\* turn-off under a running pulse are therefore reachable (C19_Witness).
C19_PulsesOverlap ==
    /\ [][PressStartsPulse /\ ReleaseKeepsPulse]_vars
    /\ [](OffUnderPulse)

\* C19 witness: key 11 was pressed, released and pressed again within 5 s;
\* the call of the first press has sent its turn-off, the pad is off and the
\* call of the second press is still in its polling loop before its timeout
C19_Witness ==
    /\ last.op = "pulsePadOff" /\ last.key = 11 /\ last.by = "press"
    /\ last.left >= 1 /\ ~pulse.led[11].on
    /\ \E i \in 1..Len(pulse.tasks) :
          /\ pulse.tasks[i].key = 11 /\ pulse.tasks[i].by = "press"
          /\ pulse.tasks[i].pc = "polling"
          /\ pulse.tasks[i].polls < PollsPerPulse

\* The keys of the four pads of a cell, and of the separator pads
CellKeys(r, c) == {getKey(CellSeq(r, c)[i]) : i \in 1..4}

SeparatorKeys ==
    {getKey(NewPad(row, col)) : row \in {3, 6}, col \in 1..8}
        \cup {getKey(NewPad(row, col)) : row \in 1..8, col \in {3, 6}}

RegistryMirrorsBoard ==
    /\ \A r \in 0..2 : \A c \in 0..2 : \A k \in CellKeys(r, c) :
          /\ k \in stored
          /\ getKey(pads[k]) = k
          /\ CASE ttt.board[r][c] = 1 ->
                    pads[k].color = ColorRed /\ pads[k].lightMode = Pulsing
               [] ttt.board[r][c] = 2 ->
                    pads[k].color = ColorBlue /\ pads[k].lightMode = Pulsing
               [] OTHER -> pads[k].color = 0
    /\ \A k \in SeparatorKeys :
          k \in stored /\ getKey(pads[k]) = k /\ pads[k].color = ColorYellow

\* C20: whenever TicTacToe is active and not over, the four pads of every
\* occupied cell are stored in the owner's colour (red for player 1, blue for
\* player 2) and Pulsing, the four pads of every empty cell are stored with
\* colour 0, and every separator pad is stored yellow.
C20_RegistryMirrorsBoard ==
    (currentGame = TicTacToe /\ ~ttt.gameOver) => RegistryMirrorsBoard

\* C20 witness: after an eviction the pads of the emptied cell are stored with
\* colour 0 again while both players have marks on the board
C20_Witness ==
    /\ currentGame = TicTacToe /\ ~ttt.gameOver
    /\ obs.nMoves = 8 /\ last.preLen = 7
    /\ \A k \in CellKeys(obs.opening[1][1], obs.opening[1][2]) : pads[k].color = 0
    /\ \E k \in Keys : pads[k].color = ColorRed /\ pads[k].lightMode = Pulsing
    /\ \E k \in Keys : pads[k].color = ColorBlue /\ pads[k].lightMode = Pulsing

\* C21: gameOver is false exactly when winner is 0; while the game is not
\* over neither player owns a complete row, column or diagonal; while it is
\* over the winner is 1 or 2, owns a complete line, and the other player owns
\* none.
C21_GameOverIffWinner ==
    /\ (~ttt.gameOver) <=> (ttt.winner = 0)
    /\ (~ttt.gameOver) => ~HasLine(ttt.board)
    /\ ttt.gameOver =>
          /\ ttt.winner \in {1, 2}
          /\ OwnsLine(ttt.board, ttt.winner)
          /\ ~OwnsLine(ttt.board, Opponent(ttt.winner))

\* C21 witness: player 1 has won with the 7th move; player 2 holds three
\* marks and no line
C21_Witness ==
    /\ currentGame = TicTacToe /\ ttt.gameOver /\ ttt.winner = 1
    /\ obs.nMoves = 7 /\ Marks(ttt.board) = 7
    /\ OwnsLine(ttt.board, 1) /\ ~OwnsLine(ttt.board, 2)

\* The keys drawMark stores for a cell on the empty registry
BlockOf(gridRow, gridCol) == drawMark(Fresh, gridRow, gridCol, 1).stored

\* A pad on a separator line
OnSeparator(pad) == pad.row \in {3, 6} \/ pad.col \in {3, 6}

\* The pads of the cell among the stored ones: clearMark also redraws the
\* grid lines, in yellow
CellPadsStored == {k \in stored : pads[k].color # ColorYellow}

MapsToCell(pad, gridRow, gridCol) ==
    padToGridPosition(pad) = [gridRow |-> gridRow, gridCol |-> gridCol]

\* C22: the four pads drawMark and clearMark address for a cell map back
\* through padToGridPosition to that cell, none of them lies on a separator
\* line, and the blocks of distinct cells are disjoint.
C22_DrawAndInputAgree ==
    /\ (last.op \in {"drawMark", "clearMark"}) =>
          /\ Cardinality(CellPadsStored) = 4
          /\ CellPadsStored = BlockOf(last.gridRow, last.gridCol)
          /\ \A k \in CellPadsStored :
                /\ getKey(pads[k]) = k
                /\ MapsToCell(pads[k], last.gridRow, last.gridCol)
                /\ ~OnSeparator(pads[k])
    /\ (last.op = "padToGridPosition" /\ pads[last.key].color # ColorYellow) =>
          /\ last.pos.gridRow = last.gridRow
          /\ last.pos.gridCol = last.gridCol
    /\ \A a \in (0..2) \X (0..2) : \A b \in (0..2) \X (0..2) :
          (a # b) => (BlockOf(a[1], a[2]) \cap BlockOf(b[1], b[2]) = {})

\* C22 witness: the pad (8,5) of the top middle cell, cleared by clearMark,
\* was mapped back to cell (0,1)
C22_Witness ==
    /\ last.op = "padToGridPosition" /\ last.after = "clearMark"
    /\ last.gridRow = 0 /\ last.gridCol = 1 /\ last.key = 85
    /\ last.pos = [gridRow |-> 0, gridCol |-> 1]
    /\ pads[85].color = ColorOff

=============================================================================
